---------------------------- MODULE Spec2Model ----------------------------
(***************************************************************************)
(* kubicle: a kind cluster plus a local registry container, the image     *)
(* publish pipeline and the streaming build context (cluster.go,          *)
(* docker.go).                                                             *)
(*                                                                         *)
(* The container runtime and the provisioning engine are the environment:  *)
(* every call into them may fail, and what they return is chosen from a    *)
(* small set.  What kubicle does with the answers is translated from the   *)
(* source, one action per call the source makes.                           *)
(***************************************************************************)
EXTENDS Integers, Sequences, FiniteSets, TLC

(***************************************************************************)
(* Small universes                                                         *)
(***************************************************************************)
Procs == {"p1", "p2"}                 \* callers of the library
Names == {"dev", "ci-1"}              \* cluster names
Images == {"svc:latest"}              \* image names given to BuildAndPushImage
Networks == {"kind", "other"}         \* container networks of the host

None == "<none>"
Nil == <<>>                           \* the nil error

\* Credential documents provider.KubeConfig may hand back.  "" is the empty
\* document; "malformed" fails clientcmd.RESTConfigFromKubeConfig; "noclient"
\* parses but kubernetes.NewForConfig rejects it; "valid" passes both.
KubeConfigs == {"", "malformed", "noclient", "valid"}

\* What inspecting the control-plane node may report: its networks, in the
\* order a Go map iteration yields them.
NetworkLists == {<<>>, <<"kind">>, <<"kind", "other">>, <<"other", "kind">>}

(***************************************************************************)
(* Names derived from the cluster name and the image name                  *)
(***************************************************************************)
\* cluster.go:142, registryContainerName := fmt.Sprintf("%s-registry", clusterName)
RegistryContainerName(name) == name \o "-registry"

\* The name Delete removes, fixed to one cluster's registry.
DeleteRegistryNameFixed(name) == "dev-registry"

\* cluster.go:118, registryName := fmt.Sprintf("%s-registry", name)
DeleteRegistryName(name) == name \o "-registry"

\* cluster.go:78, fmt.Sprintf("%s-registry:5000", name): the mirror address
\* written into the cluster configuration
MirrorAddress(name) == name \o "-registry:5000"

\* The in-cluster address, formatted with "/" where the port belongs.
RegistryNameSlash(name) == name \o "-registry/5000"

\* cluster.go:189-191, fmt.Sprintf("%s-registry:5000", c.Name)
RegistryName(name) == name \o "-registry:5000"

\* cluster.go:195-197, fmt.Sprintf("%s/%s", c.RegistryName(), image)
ImageName(name, image) == RegistryName(name) \o "/" \o image

\* cluster.go:162, fmt.Sprintf("%s-control-plane", clusterName)
ControlPlaneNodeName(name) == name \o "-control-plane"

\* docker.go:295, fmt.Sprintf("localhost:5000/%s", imageName)
RegistryImage(imageName) == "localhost:5000/" \o imageName

\* cluster.go:153, the host port the registry container publishes
RegistryHostPort == 5000

ContainerNames == {RegistryContainerName(n) : n \in Names}
Tags == {RegistryImage(i) : i \in Images}

VARIABLES
    clusters,      \* provisioning engine: the names provider.List() reports
    containers,    \* runtime: container name -> [state, net, port, store]
    localImages,   \* runtime: tags in the local image store
    client,        \* docker.go:24-28, _client/_clientErr behind _clientOnce
    pc,            \* per caller: the call it is about to make
    frame,         \* per caller: arguments, locals, result of the running call
    handle,        \* per caller: Name of the *Cluster it last got, or None
    deleted,       \* per caller: Delete has been invoked on that *Cluster
    entries,       \* tarDirectory: what filepath.WalkDir meets, in walk order
    idx,           \* producer: index of the entry the walk visits next
    ppc,           \* producer goroutine: where it stands
    twRemaining,   \* tar.Writer: bytes of the current entry not yet written
    twErr,         \* tar.Writer: its sticky error
    walkErr,       \* docker.go:321, the error the walk ended with
    openFiles,     \* producer: entries whose os.File is open
    pipeEnd,       \* io.Pipe: what pw.CloseWithError left for the reader
    cpc,           \* consumer (BuildImage): where it stands
    received,      \* consumer: what it has read from the stream
    clientOnce,    \* docker.go:26, _clientOnce: its done flag and its mutex
    clientPtr,     \* docker.go:25, _client: 0 for nil, else the client's identity
    clientErr,     \* docker.go:27, _clientErr: 0 for nil, else the error's identity
    constructions, \* how many times client.NewClientWithOpts has been called
    gpc,           \* per goroutine in getClient: where it stands
    glocal,        \* per goroutine: cli, err of docker.go:32 and what it read to return
    returned,      \* the (client, error) pairs getClient has returned so far
    dirPath,       \* tarDirectory's argument, as the caller wrote it
    relPath,       \* a file of the directory: its path relative to the root
    walkPath,      \* filepath.WalkDir: the path of the entry it stands at
    walkRest,      \* filepath.WalkDir: the components still to descend to the file
    headerName,    \* docker.go:346-348, relativePath / header.Name
    npc,           \* where the walk to that file stands
    now,           \* the clock, in ticks of half a minute
    ctrWait,       \* what the runtime's wait on the container has to report
    wpc,           \* per caller of WaitForContainerReady: where it stands
    wframe         \* per caller: timeout, start, deadline of cctx, result

hostVars == <<clusters, containers, localImages, pc, frame, handle, deleted>>
tarVars == <<entries, idx, ppc, twRemaining, twErr, walkErr, openFiles, pipeEnd,
             cpc, received>>
vars == <<clusters, containers, localImages, client, pc, frame, handle, deleted,
          entries, idx, ppc, twRemaining, twErr, walkErr, openFiles, pipeEnd,
          cpc, received,
          clientOnce, clientPtr, clientErr, constructions, gpc, glocal, returned,
          dirPath, relPath, walkPath, walkRest, headerName, npc,
          now, ctrWait, wpc, wframe>>
onceVars == <<clientOnce, clientPtr, clientErr, constructions, gpc, glocal, returned>>
nameVars == <<dirPath, relPath, walkPath, walkRest, headerName, npc>>
waitVars == <<now, ctrWait, wpc, wframe>>
unitVars == <<onceVars, nameVars, waitVars>>

AbsentContainer == [state |-> "absent", net |-> None, port |-> 0, store |-> {}]

IdleFrame ==
    [op |-> None, name |-> None, image |-> None,
     found |-> FALSE, kubeconfig |-> "", cfgFile |-> "none", deferRemove |-> FALSE,
     ctrID |-> None, network |-> None, errs |-> <<>>, result |-> Nil,
     registryReturned |-> "no",
     preCluster |-> FALSE, preRegistry |-> FALSE, again |-> FALSE,
     value |-> "", log |-> <<>>]

Goroutines == {"g1", "g2", "g3"}
NoLocals == [cli |-> 0, err |-> 0]

\* docker.go:24-28: the package variables as the program starts, nobody in
\* getClient.
OnceUnused ==
    /\ clientOnce = [done |-> 0, m |-> None]
    /\ clientPtr = 0
    /\ clientErr = 0
    /\ constructions = 0
    /\ gpc = [g \in Goroutines |-> "idle"]
    /\ glocal = [g \in Goroutines |-> NoLocals]
    /\ returned = {}

\* No directory is being walked for its entry names.
NoWalk ==
    /\ dirPath = <<>>
    /\ relPath = <<>>
    /\ walkPath = <<>>
    /\ walkRest = <<>>
    /\ headerName = <<>>
    /\ npc = "none"

Waiters == {"w1", "w2"}
NoWait == [timeout |-> 0, started |-> 0, deadline |-> 0, result |-> None]

\* Nobody waits for a container.
NoWaiters ==
    /\ now = 0
    /\ ctrWait = "pending"
    /\ wpc = [w \in Waiters |-> "idle"]
    /\ wframe = [w \in Waiters |-> NoWait]

\* No build-context stream has been asked for.
NoStream ==
    /\ entries = <<>>
    /\ idx = 1
    /\ ppc = "none"
    /\ twRemaining = 0
    /\ twErr = "nil"
    /\ walkErr = "nil"
    /\ openFiles = {}
    /\ pipeEnd = "open"
    /\ cpc = "none"
    /\ received = <<>>

Init ==
    /\ clusters = {}
    /\ containers = [c \in ContainerNames |-> AbsentContainer]
    /\ localImages = {}
    /\ client = "unset"
    /\ pc = [p \in Procs |-> "idle"]
    /\ frame = [p \in Procs |-> IdleFrame]
    /\ handle = [p \in Procs |-> None]
    /\ deleted = [p \in Procs |-> FALSE]
    /\ NoStream
    /\ OnceUnused
    /\ NoWalk
    /\ NoWaiters

(***************************************************************************)
(* Helpers for the per-call frame                                          *)
(***************************************************************************)
\* One line of the call's history: the operation issued, on what, and whether
\* it succeeded.
Logged(f, op, arg, ok) == [f EXCEPT !.log = Append(@, [op |-> op, arg |-> arg, ok |-> ok])]

\* cluster.go:82, defer os.Remove(configFilePath): runs on every return that
\* follows its registration.
Returned(f, res) ==
    [f EXCEPT !.result = res,
              !.cfgFile = IF f.deferRemove /\ f.cfgFile = "present" THEN "removed" ELSE @]

\* Caller p stands at label l of its call, in a program that has not crashed.
At(p, l) == pc[p] = l /\ \A q \in Procs : pc[q] # "crashed"

Goto(p, to, f) ==
    /\ pc' = [pc EXCEPT ![p] = to]
    /\ frame' = [frame EXCEPT ![p] = f]
    /\ UNCHANGED <<tarVars, unitVars>>

Issued(f, op) == \E i \in 1..Len(f.log) : f.log[i].op = op
Succeeded(f, op) == \E i \in 1..Len(f.log) : f.log[i].op = op /\ f.log[i].ok
Failed(f, op) == \E i \in 1..Len(f.log) : f.log[i].op = op /\ ~f.log[i].ok

\* docker.go:30-40, getClient: the first call decides, later calls reuse.
ClientOutcomes == IF client = "unset" THEN {"ok", "failed"} ELSE {client}

\* The running container that holds host port 5000, if any.
PortOwners == {c \in ContainerNames :
                 containers[c].state = "running" /\ containers[c].port = RegistryHostPort}


Err(msg) == <<msg>>

(***************************************************************************)
(* NewCluster, cluster.go:57-134                                           *)
(***************************************************************************)
CallNewCluster(p, n) ==
    /\ pc[p] = "idle"
    /\ Goto(p, "nc_list",
            [IdleFrame EXCEPT !.op = "NewCluster", !.name = n,
                              !.preCluster = (n \in clusters),
                              !.preRegistry =
                                  (containers[RegistryContainerName(n)].state # "absent")])
    /\ UNCHANGED <<clusters, containers, localImages, client, handle, deleted>>

\* cluster.go:62-76, provider.List() and the search for name
NewCluster_List(p) ==
    /\ At(p, "nc_list")
    /\ LET f == frame[p] IN
       \E ok \in BOOLEAN :
          IF ~ok
          THEN Goto(p, "done", Returned(Logged(f, "provider.List", f.name, FALSE),
                                        Err("failed to list clusters")))
          ELSE LET found == f.name \in clusters IN
               Goto(p, IF found THEN "nc_kubeconfig" ELSE "nc_template",
                    [Logged(f, "provider.List", f.name, TRUE) EXCEPT !.found = found])
    /\ UNCHANGED <<clusters, containers, localImages, client, handle, deleted>>

\* cluster.go:70-77, provider.KubeConfig on the reuse branch, then the test
\* kubeconfig == "" that selects the creation branch
NewCluster_KubeConfig(p) ==
    /\ At(p, "nc_kubeconfig")
    /\ LET f == frame[p] IN
       \/ Goto(p, "done", Returned(Logged(f, "provider.KubeConfig", f.name, FALSE),
                                   Err("failed to get kubeconfig")))
       \/ /\ f.name \in clusters
          /\ \E doc \in KubeConfigs :
                Goto(p, IF doc = "" THEN "nc_template" ELSE "nc_client",
                     [Logged(f, "provider.KubeConfig", f.name, TRUE)
                         EXCEPT !.kubeconfig = doc])
    /\ UNCHANGED <<clusters, containers, localImages, client, handle, deleted>>

\* cluster.go:20-42 and 78-82: the template is written to a temp file; on
\* success the caller registers the deferred os.Remove
writeOutConfigTemplate(p) ==
    /\ At(p, "nc_template")
    /\ LET f == frame[p] IN
       \E outcome \in {"parse", "createtemp", "execute", "ok"} :
          CASE outcome = "ok" ->
                 Goto(p, "nc_create",
                      [Logged(f, "writeOutConfigTemplate", MirrorAddress(f.name), TRUE)
                          EXCEPT !.cfgFile = "present", !.deferRemove = TRUE])
            [] outcome = "execute" ->
                 Goto(p, "done",
                      Returned([Logged(f, "writeOutConfigTemplate",
                                       MirrorAddress(f.name), FALSE)
                                   EXCEPT !.cfgFile = "present"],
                               Err("failed to write out config template")))
            [] OTHER ->
                 Goto(p, "done",
                      Returned(Logged(f, "writeOutConfigTemplate",
                                      MirrorAddress(f.name), FALSE),
                               Err("failed to write out config template")))
    /\ UNCHANGED <<clusters, containers, localImages, client, handle, deleted>>

\* cluster.go:84-92, provider.Create; the engine refuses a name it already has
NewCluster_Create(p) ==
    /\ At(p, "nc_create")
    /\ LET f == frame[p] IN
       \/ /\ Goto(p, "done", Returned(Logged(f, "provider.Create", f.name, FALSE),
                                      Err("failed to create cluster")))
          /\ UNCHANGED clusters
       \/ /\ f.name \notin clusters
          /\ clusters' = clusters \cup {f.name}
          /\ Goto(p, "nc_kubeconfig_fresh", Logged(f, "provider.Create", f.name, TRUE))
    /\ UNCHANGED <<containers, localImages, client, handle, deleted>>

\* cluster.go:93-96, provider.KubeConfig after a fresh creation
NewCluster_KubeConfigFresh(p) ==
    /\ At(p, "nc_kubeconfig_fresh")
    /\ LET f == frame[p] IN
       \/ Goto(p, "done", Returned(Logged(f, "provider.KubeConfig", f.name, FALSE),
                                   Err("failed to get kubeconfig")))
       \/ /\ f.name \in clusters
          /\ \E doc \in KubeConfigs :
                Goto(p, "nc_client",
                     [Logged(f, "provider.KubeConfig", f.name, TRUE)
                         EXCEPT !.kubeconfig = doc])
    /\ UNCHANGED <<clusters, containers, localImages, client, handle, deleted>>

\* NewCluster_Clientset with the registry set up on the creation branch only:
\* a reused cluster gets its handle as soon as the client is built.
NewCluster_ClientsetReuseSkipsRegistry(p) ==
    /\ At(p, "nc_client")
    /\ LET f == frame[p] IN
       CASE f.kubeconfig \in {"", "malformed"} ->
              /\ Goto(p, "done", Returned(Logged(f, "RESTConfigFromKubeConfig", f.name, FALSE),
                                          Err("failed to create client config")))
              /\ UNCHANGED <<handle, deleted>>
         [] f.kubeconfig = "noclient" ->
              /\ Goto(p, "done",
                      Returned(Logged(Logged(f, "RESTConfigFromKubeConfig", f.name, TRUE),
                                      "NewForConfig", f.name, FALSE),
                               Err("failed to create clientset")))
              /\ UNCHANGED <<handle, deleted>>
         [] f.found /\ f.kubeconfig = "valid" ->
              /\ Goto(p, "done",
                      Returned(Logged(Logged(f, "RESTConfigFromKubeConfig", f.name, TRUE),
                                      "NewForConfig", f.name, TRUE),
                               Nil))
              /\ handle' = [handle EXCEPT ![p] = f.name]
              /\ deleted' = [deleted EXCEPT ![p] = FALSE]
         [] OTHER ->
              /\ Goto(p, "cr_pull",
                      Logged(Logged(Logged(f, "RESTConfigFromKubeConfig", f.name, TRUE),
                                    "NewForConfig", f.name, TRUE),
                             "createRegistryInNetwork", f.name, TRUE))
              /\ UNCHANGED <<handle, deleted>>
    /\ UNCHANGED <<clusters, containers, localImages, client>>

\* cluster.go:99-108, RESTConfigFromKubeConfig, NewForConfig, and the call of
\* createRegistryInNetwork that follows them
NewCluster_Clientset(p) ==
    /\ At(p, "nc_client")
    /\ LET f == frame[p] IN
       CASE f.kubeconfig \in {"", "malformed"} ->
              Goto(p, "done", Returned(Logged(f, "RESTConfigFromKubeConfig", f.name, FALSE),
                                       Err("failed to create client config")))
         [] f.kubeconfig = "noclient" ->
              Goto(p, "done",
                   Returned(Logged(Logged(f, "RESTConfigFromKubeConfig", f.name, TRUE),
                                   "NewForConfig", f.name, FALSE),
                            Err("failed to create clientset")))
         [] OTHER ->
              Goto(p, "cr_pull",
                   Logged(Logged(Logged(f, "RESTConfigFromKubeConfig", f.name, TRUE),
                                 "NewForConfig", f.name, TRUE),
                          "createRegistryInNetwork", f.name, TRUE))
    /\ UNCHANGED <<clusters, containers, localImages, client, handle, deleted>>

\* cluster.go:109-111, createRegistryInNetwork failed
RegistryFailed(f) ==
    Returned([f EXCEPT !.registryReturned = "error"],
             Err("failed to create registry in network"))

\* cluster.go:113-133, createRegistryInNetwork returned nil: the handle is built
RegistryDone(f) == Returned([f EXCEPT !.registryReturned = "nil"], Nil)

(***************************************************************************)
(* createRegistryInNetwork, cluster.go:136-180                             *)
(***************************************************************************)
\* cluster.go:137-140 with docker.go:43-61
PullImage(p) ==
    /\ At(p, "cr_pull")
    /\ LET f == frame[p] IN
       \E c \in ClientOutcomes, ok \in BOOLEAN :
          /\ client' = c
          /\ IF c = "ok" /\ ok
             THEN Goto(p, "cr_exists", Logged(f, "PullImage", "registry:2", TRUE))
             ELSE Goto(p, "done", RegistryFailed(Logged(f, "PullImage", "registry:2", FALSE)))
    /\ UNCHANGED <<clusters, containers, localImages, handle, deleted>>

\* A check that answers "exists" whatever the inspection found.
InspectFindsAlways(name) == TRUE

\* A check that answers "does not exist" whatever the inspection found.
InspectFindsNever(name) == FALSE

\* docker.go:212-219, cli.ContainerInspect finds a container of that name
InspectFinds(name) == containers[name].state # "absent"

\* cluster.go:142-149 with docker.go:206-220
ContainerExists(p) ==
    /\ At(p, "cr_exists")
    /\ LET f == frame[p]
           rc == RegistryContainerName(f.name) IN
       \E c \in ClientOutcomes, ok \in BOOLEAN :
          /\ client' = c
          /\ IF ~(c = "ok" /\ ok)
             THEN /\ Goto(p, "done", RegistryFailed(Logged(f, "ContainerExists", rc, FALSE)))
                  /\ UNCHANGED <<handle, deleted>>
             ELSE IF InspectFinds(rc)
                  THEN /\ Goto(p, "done", RegistryDone(Logged(f, "ContainerExists", rc, TRUE)))
                       /\ handle' = [handle EXCEPT ![p] = f.name]
                       /\ deleted' = [deleted EXCEPT ![p] = FALSE]
                  ELSE /\ Goto(p, "cr_create", Logged(f, "ContainerExists", rc, TRUE))
                       /\ UNCHANGED <<handle, deleted>>
    /\ UNCHANGED <<clusters, containers, localImages>>

\* cluster.go:151-160 with docker.go:117-149; the runtime refuses a name in use
CreateContainer(p) ==
    /\ At(p, "cr_create")
    /\ LET f == frame[p]
           rc == RegistryContainerName(f.name) IN
       \E c \in ClientOutcomes, ok \in BOOLEAN :
          /\ client' = c
          /\ IF c = "ok" /\ ok /\ containers[rc].state = "absent"
             THEN /\ containers' = [containers EXCEPT ![rc] =
                        [state |-> "created", net |-> None,
                         port |-> RegistryHostPort, store |-> {}]]
                  /\ Goto(p, "cr_networks",
                          [Logged(f, "CreateContainer", rc, TRUE) EXCEPT !.ctrID = rc])
             ELSE /\ Goto(p, "done", RegistryFailed(Logged(f, "CreateContainer", rc, FALSE)))
                  /\ UNCHANGED containers
    /\ UNCHANGED <<clusters, localImages, handle, deleted>>

\* cluster.go:162-167 with docker.go:90-106; clusterNetworks[0] of an empty
\* list is an index out of range, which ends the program
GetContainerNetworks(p) ==
    /\ At(p, "cr_networks")
    /\ LET f == frame[p]
           node == ControlPlaneNodeName(f.name) IN
       \E c \in ClientOutcomes, ok \in BOOLEAN, nets \in NetworkLists :
          /\ client' = c
          /\ IF ~(c = "ok" /\ ok /\ f.name \in clusters)
             THEN Goto(p, "done", RegistryFailed(Logged(f, "GetContainerNetworks", node, FALSE)))
             ELSE IF Len(nets) = 0
                  THEN Goto(p, "crashed",
                            Returned(Logged(f, "GetContainerNetworks", node, TRUE),
                                     Err("panic: index out of range")))
                  ELSE Goto(p, "cr_attach",
                            [Logged(f, "GetContainerNetworks", node, TRUE)
                                EXCEPT !.network = nets[1]])
    /\ UNCHANGED <<clusters, containers, localImages, handle, deleted>>

\* AttachContainerToNetwork going on to the start whatever the attach returned.
AttachContainerToNetworkOrGoOn(p) ==
    /\ At(p, "cr_attach")
    /\ LET f == frame[p] IN
       \E c \in ClientOutcomes, ok \in BOOLEAN :
          /\ client' = c
          /\ IF c = "ok" /\ ok /\ containers[f.ctrID].state # "absent"
             THEN /\ containers' = [containers EXCEPT ![f.ctrID].net = f.network]
                  /\ Goto(p, "cr_start", Logged(f, "AttachContainerToNetwork", f.ctrID, TRUE))
             ELSE /\ Goto(p, "cr_start", Logged(f, "AttachContainerToNetwork", f.ctrID, FALSE))
                  /\ UNCHANGED containers
    /\ UNCHANGED <<clusters, localImages, handle, deleted>>

\* cluster.go:169-172 with docker.go:192-203
AttachContainerToNetwork(p) ==
    /\ At(p, "cr_attach")
    /\ LET f == frame[p] IN
       \E c \in ClientOutcomes, ok \in BOOLEAN :
          /\ client' = c
          /\ IF c = "ok" /\ ok /\ containers[f.ctrID].state # "absent"
             THEN /\ containers' = [containers EXCEPT ![f.ctrID].net = f.network]
                  /\ Goto(p, "cr_start", Logged(f, "AttachContainerToNetwork", f.ctrID, TRUE))
             ELSE /\ Goto(p, "done",
                          RegistryFailed(Logged(f, "AttachContainerToNetwork", f.ctrID, FALSE)))
                  /\ UNCHANGED containers
    /\ UNCHANGED <<clusters, localImages, handle, deleted>>

\* StartContainer removing the container it could not start.
StartContainerOrRollBack(p) ==
    /\ At(p, "cr_start")
    /\ LET f == frame[p] IN
       \E c \in ClientOutcomes, ok \in BOOLEAN :
          /\ client' = c
          /\ IF /\ c = "ok" /\ ok
                /\ containers[f.ctrID].state # "absent"
                /\ PortOwners \ {f.ctrID} = {}
             THEN /\ containers' = [containers EXCEPT ![f.ctrID].state = "running"]
                  /\ Goto(p, "done", RegistryDone(Logged(f, "StartContainer", f.ctrID, TRUE)))
                  /\ handle' = [handle EXCEPT ![p] = f.name]
                  /\ deleted' = [deleted EXCEPT ![p] = FALSE]
             ELSE /\ Goto(p, "done",
                          RegistryFailed(Logged(f, "StartContainer", f.ctrID, FALSE)))
                  /\ containers' = [containers EXCEPT ![f.ctrID] = AbsentContainer]
                  /\ UNCHANGED <<handle, deleted>>
    /\ UNCHANGED <<clusters, localImages>>

\* cluster.go:174-179 with docker.go:152-163; a host port is bound by one
\* running container at a time
StartContainer(p) ==
    /\ At(p, "cr_start")
    /\ LET f == frame[p] IN
       \E c \in ClientOutcomes, ok \in BOOLEAN :
          /\ client' = c
          /\ IF /\ c = "ok" /\ ok
                /\ containers[f.ctrID].state # "absent"
                /\ PortOwners \ {f.ctrID} = {}
             THEN /\ containers' = [containers EXCEPT ![f.ctrID].state = "running"]
                  /\ Goto(p, "done", RegistryDone(Logged(f, "StartContainer", f.ctrID, TRUE)))
                  /\ handle' = [handle EXCEPT ![p] = f.name]
                  /\ deleted' = [deleted EXCEPT ![p] = FALSE]
             ELSE /\ Goto(p, "done",
                          RegistryFailed(Logged(f, "StartContainer", f.ctrID, FALSE)))
                  /\ UNCHANGED <<containers, handle, deleted>>
    /\ UNCHANGED <<clusters, localImages>>

(***************************************************************************)
(* Cluster.Delete, cluster.go:117-130                                      *)
(***************************************************************************)
CallDelete(p) ==
    /\ pc[p] = "idle"
    /\ handle[p] # None
    /\ Goto(p, "del_registry",
            [IdleFrame EXCEPT !.op = "Delete", !.name = handle[p],
                              !.again = deleted[p],
                              !.preCluster = (handle[p] \in clusters),
                              !.preRegistry =
                                  (containers[RegistryContainerName(handle[p])].state # "absent")])
    /\ deleted' = [deleted EXCEPT ![p] = TRUE]
    /\ UNCHANGED <<clusters, containers, localImages, client, handle>>

\* errors.Join (cluster.go:129): the non-nil errors, or nil when there is none
Join(errs) == SelectSeq(errs, LAMBDA e : e # "")

\* RemoveContainer with an early return: a failed removal ends Delete.
RemoveContainerOrReturn(p) ==
    /\ At(p, "del_registry")
    /\ LET f == frame[p]
           registryName == DeleteRegistryName(f.name) IN
       \E c \in ClientOutcomes, ok \in BOOLEAN :
          /\ client' = c
          /\ IF c = "ok" /\ ok /\ containers[registryName].state # "absent"
             THEN /\ containers' = [containers EXCEPT ![registryName] = AbsentContainer]
                  /\ Goto(p, "del_cluster", Logged(f, "RemoveContainer", registryName, TRUE))
             ELSE /\ Goto(p, "done",
                          Returned([Logged(f, "RemoveContainer", registryName, FALSE)
                                       EXCEPT !.errs = Append(@, "failed to remove registry container")],
                                   Err("failed to remove registry container")))
                  /\ UNCHANGED containers
    /\ UNCHANGED <<clusters, localImages, handle, deleted>>

\* cluster.go:118-123 with docker.go:223-236; removing a container that does
\* not exist is an error of the runtime
RemoveContainer(p) ==
    /\ At(p, "del_registry")
    /\ LET f == frame[p]
           registryName == DeleteRegistryName(f.name) IN
       \E c \in ClientOutcomes, ok \in BOOLEAN :
          /\ client' = c
          /\ IF c = "ok" /\ ok /\ containers[registryName].state # "absent"
             THEN /\ containers' = [containers EXCEPT ![registryName] = AbsentContainer]
                  /\ Goto(p, "del_cluster", Logged(f, "RemoveContainer", registryName, TRUE))
             ELSE /\ Goto(p, "del_cluster",
                          [Logged(f, "RemoveContainer", registryName, FALSE)
                              EXCEPT !.errs = Append(@, "failed to remove registry container")])
                  /\ UNCHANGED containers
    /\ UNCHANGED <<clusters, localImages, handle, deleted>>

\* ProviderDelete keeping one error only: the later failure replaces the earlier.
ProviderDeleteOverwrites(p) ==
    /\ At(p, "del_cluster")
    /\ LET f == frame[p] IN
       \E ok \in BOOLEAN :
          IF ok
          THEN /\ clusters' = clusters \ {f.name}
               /\ Goto(p, "done",
                       Returned(Logged(f, "provider.Delete", f.name, TRUE), Join(f.errs)))
          ELSE /\ UNCHANGED clusters
               /\ LET errs == <<"failed to delete cluster">> IN
                  Goto(p, "done",
                       Returned([Logged(f, "provider.Delete", f.name, FALSE)
                                    EXCEPT !.errs = errs],
                                Join(errs)))
    /\ UNCHANGED <<containers, localImages, client, handle, deleted>>

\* ProviderDelete asking the engine to delete every cluster it lists.
ProviderDeleteAll(p) ==
    /\ At(p, "del_cluster")
    /\ LET f == frame[p] IN
       \E ok \in BOOLEAN :
          IF ok
          THEN /\ clusters' = {}
               /\ Goto(p, "done",
                       Returned(Logged(f, "provider.Delete", f.name, TRUE), Join(f.errs)))
          ELSE /\ UNCHANGED clusters
               /\ LET errs == Append(f.errs, "failed to delete cluster") IN
                  Goto(p, "done",
                       Returned([Logged(f, "provider.Delete", f.name, FALSE)
                                    EXCEPT !.errs = errs],
                                Join(errs)))
    /\ UNCHANGED <<containers, localImages, client, handle, deleted>>

\* cluster.go:125-129, provider.Delete and the joined result
ProviderDelete(p) ==
    /\ At(p, "del_cluster")
    /\ LET f == frame[p] IN
       \E ok \in BOOLEAN :
          IF ok
          THEN /\ clusters' = clusters \ {f.name}
               /\ Goto(p, "done",
                       Returned(Logged(f, "provider.Delete", f.name, TRUE), Join(f.errs)))
          ELSE /\ UNCHANGED clusters
               /\ LET errs == Append(f.errs, "failed to delete cluster") IN
                  Goto(p, "done",
                       Returned([Logged(f, "provider.Delete", f.name, FALSE)
                                    EXCEPT !.errs = errs],
                                Join(errs)))
    /\ UNCHANGED <<containers, localImages, client, handle, deleted>>

(***************************************************************************)
(* Cluster.BuildAndPushImage, cluster.go:184-186, which is                 *)
(* PushImageToClusterRegistry, docker.go:289-313                           *)
(***************************************************************************)
CallBuildAndPushImage(p, imageName) ==
    /\ pc[p] = "idle"
    /\ handle[p] # None
    /\ Goto(p, "bp_build",
            [IdleFrame EXCEPT !.op = "BuildAndPushImage", !.name = handle[p],
                              !.image = imageName])
    /\ UNCHANGED <<clusters, containers, localImages, client, handle, deleted>>

\* docker.go:290-300 with docker.go:64-87: tarDirectory returns a stream and no
\* error; the build, which may fail for any reason, a broken stream among them
\* (SpecTar below follows the stream itself), tags the image in the local store
BuildImage(p) ==
    /\ At(p, "bp_build")
    /\ LET f == frame[p]
           registryImage == RegistryImage(f.image) IN
       \E c \in ClientOutcomes, ok \in BOOLEAN :
          /\ client' = c
          /\ IF c = "ok" /\ ok
             THEN /\ localImages' = localImages \cup {registryImage}
                  /\ Goto(p, "bp_push", Logged(f, "BuildImage", registryImage, TRUE))
             ELSE /\ UNCHANGED localImages
                  /\ Goto(p, "done", Returned(Logged(f, "BuildImage", registryImage, FALSE),
                                              Err("failed to build image")))
    /\ UNCHANGED <<clusters, containers, handle, deleted>>

\* PushImage with its error dropped: the pipeline goes on to the delete.
PushImageIgnoresError(p) ==
    /\ At(p, "bp_push")
    /\ LET f == frame[p]
           registryImage == RegistryImage(f.image) IN
       \E c \in ClientOutcomes, ok \in BOOLEAN :
          /\ client' = c
          /\ IF c = "ok" /\ ok /\ registryImage \in localImages /\ PortOwners # {}
             THEN /\ \E r \in PortOwners :
                        containers' = [containers EXCEPT ![r].store = @ \cup {f.image}]
                  /\ Goto(p, "bp_delete", Logged(f, "PushImage", registryImage, TRUE))
             ELSE /\ UNCHANGED containers
                  /\ Goto(p, "bp_delete", Logged(f, "PushImage", registryImage, FALSE))
    /\ UNCHANGED <<clusters, localImages, handle, deleted>>

\* docker.go:302-305 with docker.go:239-269: the push goes to whatever listens
\* on localhost:5000
PushImage(p) ==
    /\ At(p, "bp_push")
    /\ LET f == frame[p]
           registryImage == RegistryImage(f.image) IN
       \E c \in ClientOutcomes, ok \in BOOLEAN :
          /\ client' = c
          /\ IF c = "ok" /\ ok /\ registryImage \in localImages /\ PortOwners # {}
             THEN /\ \E r \in PortOwners :
                        containers' = [containers EXCEPT ![r].store = @ \cup {f.image}]
                  /\ Goto(p, "bp_delete", Logged(f, "PushImage", registryImage, TRUE))
             ELSE /\ UNCHANGED containers
                  /\ Goto(p, "done", Returned(Logged(f, "PushImage", registryImage, FALSE),
                                              Err("failed to push image to cluster registry")))
    /\ UNCHANGED <<clusters, localImages, handle, deleted>>

\* docker.go:307-312 with docker.go:272-285
DeleteImage(p) ==
    /\ At(p, "bp_delete")
    /\ LET f == frame[p]
           registryImage == RegistryImage(f.image) IN
       \E c \in ClientOutcomes, ok \in BOOLEAN :
          /\ client' = c
          /\ IF c = "ok" /\ ok /\ registryImage \in localImages
             THEN /\ localImages' = localImages \ {registryImage}
                  /\ Goto(p, "done", Returned(Logged(f, "DeleteImage", registryImage, TRUE), Nil))
             ELSE /\ UNCHANGED localImages
                  /\ Goto(p, "done", Returned(Logged(f, "DeleteImage", registryImage, FALSE),
                                              Err("failed to delete image from local docker")))
    /\ UNCHANGED <<clusters, containers, handle, deleted>>

(***************************************************************************)
(* Cluster.RegistryName and Cluster.ImageName, cluster.go:188-197          *)
(***************************************************************************)
CallRegistryName(p) ==
    /\ pc[p] = "idle"
    /\ handle[p] # None
    /\ Goto(p, "done",
            [IdleFrame EXCEPT !.op = "RegistryName", !.name = handle[p],
                              !.value = RegistryName(handle[p])])
    /\ UNCHANGED <<clusters, containers, localImages, client, handle, deleted>>

CallImageName(p, image) ==
    /\ pc[p] = "idle"
    /\ handle[p] # None
    /\ Goto(p, "done",
            [IdleFrame EXCEPT !.op = "ImageName", !.name = handle[p], !.image = image,
                              !.value = ImageName(handle[p], image)])
    /\ UNCHANGED <<clusters, containers, localImages, client, handle, deleted>>

(***************************************************************************)
(* The caller                                                              *)
(***************************************************************************)
\* The call has returned; the caller is free to make the next one.
Return(p) ==
    /\ At(p, "done")
    /\ Goto(p, "idle", IdleFrame)
    /\ UNCHANGED <<clusters, containers, localImages, client, handle, deleted>>

\* An index-out-of-range panic ended the program; a new run of it starts with
\* no handle and no runtime client, on the host as the old run left it.
Restart ==
    /\ \E p \in Procs : pc[p] = "crashed"
    /\ pc' = [p \in Procs |-> "idle"]
    /\ frame' = [p \in Procs |-> IdleFrame]
    /\ handle' = [p \in Procs |-> None]
    /\ deleted' = [p \in Procs |-> FALSE]
    /\ client' = "unset"
    /\ UNCHANGED <<clusters, containers, localImages>>
    /\ UNCHANGED <<tarVars, unitVars>>

AllIdle == \A p \in Procs : pc[p] = "idle"

\* Calls made one after the other: a call starts when no other is running.
Next ==
    \/ \E p \in Procs, n \in Names : AllIdle /\ CallNewCluster(p, n)
    \/ \E p \in Procs : AllIdle /\ CallDelete(p)
    \/ \E p \in Procs, i \in Images : AllIdle /\ CallBuildAndPushImage(p, i)
    \/ \E p \in Procs : AllIdle /\ CallRegistryName(p)
    \/ \E p \in Procs, i \in Images : AllIdle /\ CallImageName(p, i)
    \/ \E p \in Procs : NewCluster_List(p)
    \/ \E p \in Procs : NewCluster_KubeConfig(p)
    \/ \E p \in Procs : writeOutConfigTemplate(p)
    \/ \E p \in Procs : NewCluster_Create(p)
    \/ \E p \in Procs : NewCluster_KubeConfigFresh(p)
    \/ \E p \in Procs : NewCluster_Clientset(p)
    \/ \E p \in Procs : PullImage(p)
    \/ \E p \in Procs : ContainerExists(p)
    \/ \E p \in Procs : CreateContainer(p)
    \/ \E p \in Procs : GetContainerNetworks(p)
    \/ \E p \in Procs : AttachContainerToNetwork(p)
    \/ \E p \in Procs : StartContainer(p)
    \/ \E p \in Procs : RemoveContainer(p)
    \/ \E p \in Procs : ProviderDelete(p)
    \/ \E p \in Procs : BuildImage(p)
    \/ \E p \in Procs : PushImage(p)
    \/ \E p \in Procs : DeleteImage(p)
    \/ \E p \in Procs : Return(p)
    \/ Restart

Spec == Init /\ [][Next]_vars

(***************************************************************************)
(* Concurrent callers: NewCluster called from two goroutines (or two        *)
(* processes on one host) with no lock between them; the steps of the calls *)
(* interleave freely, all for the same cluster name.  No container is      *)
(* removed here, so the name of a container stands for its ID throughout.   *)
(***************************************************************************)
SharedNames == {"dev"}

NextConc ==
    \/ \E p \in Procs, n \in SharedNames : CallNewCluster(p, n)
    \/ \E p \in Procs : NewCluster_List(p)
    \/ \E p \in Procs : NewCluster_KubeConfig(p)
    \/ \E p \in Procs : writeOutConfigTemplate(p)
    \/ \E p \in Procs : NewCluster_Create(p)
    \/ \E p \in Procs : NewCluster_KubeConfigFresh(p)
    \/ \E p \in Procs : NewCluster_Clientset(p)
    \/ \E p \in Procs : PullImage(p)
    \/ \E p \in Procs : ContainerExists(p)
    \/ \E p \in Procs : CreateContainer(p)
    \/ \E p \in Procs : GetContainerNetworks(p)
    \/ \E p \in Procs : AttachContainerToNetwork(p)
    \/ \E p \in Procs : StartContainer(p)
    \/ \E p \in Procs : Return(p)
    \/ Restart

SpecConc == Init /\ [][NextConc]_vars

(***************************************************************************)
(* tarDirectory, docker.go:315-366: a goroutine walks the directory and     *)
(* writes a tar archive into an io.Pipe; BuildImage (docker.go:64-87) is    *)
(* the reader.  A write into the pipe completes only when the reader takes  *)
(* it, and fails once the reader has closed its end.                        *)
(***************************************************************************)
MaxEntries == 2        \* entries the walk meets
MaxSize == 1           \* bytes of a file, in its header and at copy time

NoError == "nil"
ErrClosedPipe == "io: read/write on closed pipe"
ErrWriteTooLong == "archive/tar: write too long"
ErrMissedWriting == "archive/tar: missed writing bytes"

\* What the walk may meet: a directory; an entry WalkDir reports with an error;
\* a file that is gone when d.Info() is asked; a socket, which
\* tar.FileInfoHeader refuses; a file os.Open refuses; a file whose Read fails;
\* a regular file with the size lstat saw and the size it has when copied.
Entry ==
    [kind : {"dir", "walkerr", "vanished", "socket"}, size : {0}, actual : {0}]
    \cup [kind : {"unreadable", "readerr"}, size : 0..MaxSize, actual : {0}]
    \cup [kind : {"file"}, size : 0..MaxSize, actual : 0..MaxSize]

Listings == UNION {[1..n -> Entry] : n \in 0..MaxEntries}

Min(a, b) == IF a < b THEN a ELSE b

\* docker.go:316-318 and 365: the pipe is made, the goroutine started, the
\* read end returned and handed to BuildImage (docker.go:297).
InitTar ==
    /\ clusters = {}
    /\ containers = [c \in ContainerNames |-> AbsentContainer]
    /\ localImages = {}
    /\ client = "unset"
    /\ pc = [p \in Procs |-> "idle"]
    /\ frame = [p \in Procs |-> IdleFrame]
    /\ handle = [p \in Procs |-> None]
    /\ deleted = [p \in Procs |-> FALSE]
    /\ entries \in Listings
    /\ idx = 1
    /\ ppc = "walk"
    /\ twRemaining = 0
    /\ twErr = NoError
    /\ walkErr = NoError
    /\ openFiles = {}
    /\ pipeEnd = "open"
    /\ cpc = "called"
    /\ received = <<>>
    /\ OnceUnused
    /\ NoWalk
    /\ NoWaiters

\* The producer can hand a write to the reader, or learn that the reader is gone.
ReaderTakes == cpc = "reading"
ReaderGone == cpc = "closed"

\* docker.go:327-343: WalkDir calls the callback for the next entry, or ends
Walk ==
    /\ ppc = "walk"
    /\ IF idx > Len(entries)
       THEN /\ ppc' = "tw_close"
            /\ UNCHANGED <<idx, walkErr>>
       ELSE LET e == entries[idx] IN
            CASE e.kind = "dir" ->
                   /\ idx' = idx + 1
                   /\ UNCHANGED <<ppc, walkErr>>
              [] e.kind = "walkerr" ->
                   /\ walkErr' = "walk: permission denied"
                   /\ ppc' = "tw_close"
                   /\ UNCHANGED idx
              [] e.kind = "vanished" ->
                   /\ walkErr' = "lstat: no such file or directory"
                   /\ ppc' = "tw_close"
                   /\ UNCHANGED idx
              [] e.kind = "socket" ->
                   /\ walkErr' = "archive/tar: sockets not supported"
                   /\ ppc' = "tw_close"
                   /\ UNCHANGED idx
              [] OTHER ->
                   /\ ppc' = "header"
                   /\ UNCHANGED <<idx, walkErr>>
    /\ UNCHANGED <<entries, twRemaining, twErr, openFiles, pipeEnd, cpc, received>>
    /\ UNCHANGED <<hostVars, client, unitVars>>

\* docker.go:350-352, tw.WriteHeader: it flushes the previous entry (an entry
\* written short is an error) and writes the header into the pipe
WriteHeader ==
    /\ ppc = "header"
    /\ IF twErr # NoError
       THEN /\ walkErr' = twErr
            /\ ppc' = "tw_close"
            /\ UNCHANGED <<twRemaining, twErr, received>>
       ELSE IF twRemaining > 0
       THEN /\ walkErr' = ErrMissedWriting
            /\ ppc' = "tw_close"
            /\ UNCHANGED <<twRemaining, twErr, received>>
       ELSE \/ /\ ReaderTakes
               /\ received' = Append(received, <<"header", idx, entries[idx].size>>)
               /\ twRemaining' = entries[idx].size
               /\ ppc' = "open"
               /\ UNCHANGED <<twErr, walkErr>>
            \/ /\ ReaderGone
               /\ twErr' = ErrClosedPipe
               /\ walkErr' = ErrClosedPipe
               /\ ppc' = "tw_close"
               /\ UNCHANGED <<twRemaining, received>>
    /\ UNCHANGED <<entries, idx, openFiles, pipeEnd, cpc>>
    /\ UNCHANGED <<hostVars, client, unitVars>>

\* docker.go:354-358, os.Open and the deferred file.Close
Open ==
    /\ ppc = "open"
    /\ IF entries[idx].kind = "unreadable"
       THEN /\ walkErr' = "open: permission denied"
            /\ ppc' = "tw_close"
            /\ UNCHANGED openFiles
       ELSE /\ openFiles' = openFiles \cup {idx}
            /\ ppc' = "copy"
            /\ UNCHANGED walkErr
    /\ UNCHANGED <<entries, idx, twRemaining, twErr, pipeEnd, cpc, received>>
    /\ UNCHANGED <<hostVars, client, unitVars>>

\* Copy without the deferred file.Close: the file stays open after the callback.
CopyLeavesOpen ==
    /\ ppc = "copy"
    /\ LET e == entries[idx]
           n == Min(e.actual, twRemaining) IN
       IF e.kind = "readerr"
       THEN /\ walkErr' = "read: input/output error"
            /\ ppc' = "tw_close"
            /\ UNCHANGED <<idx, twRemaining, twErr, received>>
       ELSE IF n = 0
       THEN /\ IF e.actual > twRemaining
               THEN /\ walkErr' = ErrWriteTooLong
                    /\ ppc' = "tw_close"
                    /\ UNCHANGED idx
               ELSE /\ idx' = idx + 1
                    /\ ppc' = "walk"
                    /\ UNCHANGED walkErr
            /\ UNCHANGED <<twRemaining, twErr, received>>
       ELSE \/ /\ ReaderTakes
               /\ received' = Append(received, <<"data", idx, n>>)
               /\ twRemaining' = twRemaining - n
               /\ IF e.actual > twRemaining
                  THEN /\ walkErr' = ErrWriteTooLong
                       /\ ppc' = "tw_close"
                       /\ UNCHANGED idx
                  ELSE /\ idx' = idx + 1
                       /\ ppc' = "walk"
                       /\ UNCHANGED walkErr
               /\ UNCHANGED twErr
            \/ /\ ReaderGone
               /\ twErr' = ErrClosedPipe
               /\ walkErr' = ErrClosedPipe
               /\ ppc' = "tw_close"
               /\ UNCHANGED <<idx, twRemaining, received>>
    /\ UNCHANGED openFiles
    /\ UNCHANGED <<entries, pipeEnd, cpc>>
    /\ UNCHANGED <<hostVars, client, unitVars>>

\* docker.go:360-361, io.Copy(tw, file) and the return of the callback, which
\* runs the deferred file.Close: tw.Write takes at most the bytes the header
\* announced and reports ErrWriteTooLong for more; fewer bytes are no error here
Copy ==
    /\ ppc = "copy"
    /\ LET e == entries[idx]
           n == Min(e.actual, twRemaining) IN
       IF e.kind = "readerr"
       THEN /\ walkErr' = "read: input/output error"
            /\ ppc' = "tw_close"
            /\ UNCHANGED <<idx, twRemaining, twErr, received>>
       ELSE IF n = 0
       THEN /\ IF e.actual > twRemaining
               THEN /\ walkErr' = ErrWriteTooLong
                    /\ ppc' = "tw_close"
                    /\ UNCHANGED idx
               ELSE /\ idx' = idx + 1
                    /\ ppc' = "walk"
                    /\ UNCHANGED walkErr
            /\ UNCHANGED <<twRemaining, twErr, received>>
       ELSE \/ /\ ReaderTakes
               /\ received' = Append(received, <<"data", idx, n>>)
               /\ twRemaining' = twRemaining - n
               /\ IF e.actual > twRemaining
                  THEN /\ walkErr' = ErrWriteTooLong
                       /\ ppc' = "tw_close"
                       /\ UNCHANGED idx
                  ELSE /\ idx' = idx + 1
                       /\ ppc' = "walk"
                       /\ UNCHANGED walkErr
               /\ UNCHANGED twErr
            \/ /\ ReaderGone
               /\ twErr' = ErrClosedPipe
               /\ walkErr' = ErrClosedPipe
               /\ ppc' = "tw_close"
               /\ UNCHANGED <<idx, twRemaining, received>>
    /\ openFiles' = openFiles \ {idx}
    /\ UNCHANGED <<entries, pipeEnd, cpc>>
    /\ UNCHANGED <<hostVars, client, unitVars>>

\* docker.go:322-323, the deferred tw.Close(): it writes the trailer unless the
\* writer has an error or the last entry was written short; what it returns is
\* dropped
TwClose ==
    /\ ppc = "tw_close"
    /\ IF twErr # NoError \/ twRemaining > 0
       THEN /\ ppc' = "pw_close"
            /\ UNCHANGED <<twErr, received>>
       ELSE \/ /\ ReaderTakes
               /\ received' = Append(received, <<"trailer", 0, 0>>)
               /\ ppc' = "pw_close"
               /\ UNCHANGED twErr
            \/ /\ ReaderGone
               /\ twErr' = ErrClosedPipe
               /\ ppc' = "pw_close"
               /\ UNCHANGED received
    /\ UNCHANGED <<entries, idx, twRemaining, walkErr, openFiles, pipeEnd, cpc>>
    /\ UNCHANGED <<hostVars, client, unitVars>>

\* docker.go:324, pw.CloseWithError(walkErr): a nil error reads as io.EOF
PwCloseWithError ==
    /\ ppc = "pw_close"
    /\ pipeEnd' = IF walkErr = NoError THEN "EOF" ELSE walkErr
    /\ ppc' = "done"
    /\ UNCHANGED <<entries, idx, twRemaining, twErr, walkErr, openFiles, cpc, received>>
    /\ UNCHANGED <<hostVars, client, unitVars>>

\* docker.go:65-68, BuildImage asks for the client first and returns without
\* touching the stream when there is none
BuildImage_getClient ==
    /\ cpc = "called"
    /\ \E c \in ClientOutcomes :
          /\ client' = c
          /\ cpc' = IF c = "ok" THEN "reading" ELSE "abandoned"
    /\ UNCHANGED <<entries, idx, ppc, twRemaining, twErr, walkErr, openFiles, pipeEnd,
                   received>>
    /\ UNCHANGED <<hostVars, unitVars>>

\* docker.go:70-78, cli.ImageBuild gives up before the end of the stream (the
\* daemon refuses, the context is cancelled); the HTTP transport closes the
\* request body, which is the read end of the pipe
ImageBuild_Abort ==
    /\ cpc = "reading"
    /\ pipeEnd = "open"
    /\ cpc' = "closed"
    /\ UNCHANGED <<entries, idx, ppc, twRemaining, twErr, walkErr, openFiles, pipeEnd,
                   received>>
    /\ UNCHANGED <<hostVars, client, unitVars>>

\* docker.go:70-78, cli.ImageBuild reads the stream to its end: io.EOF, or the
\* error the writer closed the pipe with
ImageBuild_ReadEnd ==
    /\ cpc = "reading"
    /\ pipeEnd # "open"
    /\ cpc' = IF pipeEnd = "EOF" THEN "eof" ELSE "error"
    /\ UNCHANGED <<entries, idx, ppc, twRemaining, twErr, walkErr, openFiles, pipeEnd,
                   received>>
    /\ UNCHANGED <<hostVars, client, unitVars>>

NextTar ==
    \/ Walk
    \/ WriteHeader
    \/ Open
    \/ Copy
    \/ TwClose
    \/ PwCloseWithError
    \/ BuildImage_getClient
    \/ ImageBuild_Abort
    \/ ImageBuild_ReadEnd

SpecTar == InitTar /\ [][NextTar]_vars

\* The Go scheduler runs a goroutine that can run, and the reader of a build
\* request in progress goes on.
FairSpecTar == SpecTar /\ WF_vars(NextTar)

(***************************************************************************)
(* getClient, docker.go:30-40, called from several goroutines.             *)
(* _clientOnce.Do(f) is sync.Once: an atomic load of the done flag; when   *)
(* it is 0, the mutex is taken, the flag is looked at again and, still 0,  *)
(* f runs, the flag is stored and the mutex released.                      *)
(***************************************************************************)
GoTo(g, to) ==
    /\ gpc' = [gpc EXCEPT ![g] = to]
    /\ UNCHANGED <<hostVars, client, tarVars, nameVars, waitVars>>

\* docker.go:30, a goroutine enters getClient
getClient_Call(g) ==
    /\ gpc[g] = "idle"
    /\ GoTo(g, "do")
    /\ glocal' = [glocal EXCEPT ![g] = NoLocals]
    /\ UNCHANGED <<clientOnce, clientPtr, clientErr, constructions, returned>>

\* docker.go:31, Once.Do: the fast path when the flag is set
Once_Do(g) ==
    /\ gpc[g] = "do"
    /\ GoTo(g, IF clientOnce.done = 1 THEN "return" ELSE "lock")
    /\ UNCHANGED <<clientOnce, clientPtr, clientErr, constructions, glocal, returned>>

\* Once.doSlow taking the mutex without waiting for its holder.
Once_LockNoWait(g) ==
    /\ gpc[g] = "lock"
    /\ clientOnce' = [clientOnce EXCEPT !.m = g]
    /\ GoTo(g, "doSlow")
    /\ UNCHANGED <<clientPtr, clientErr, constructions, glocal, returned>>

\* docker.go:31, Once.doSlow: o.m.Lock()
Once_Lock(g) ==
    /\ gpc[g] = "lock"
    /\ clientOnce.m = None
    /\ clientOnce' = [clientOnce EXCEPT !.m = g]
    /\ GoTo(g, "doSlow")
    /\ UNCHANGED <<clientPtr, clientErr, constructions, glocal, returned>>

\* docker.go:31, Once.doSlow: the flag is read again under the mutex
Once_doSlow(g) ==
    /\ gpc[g] = "doSlow"
    /\ GoTo(g, IF clientOnce.done = 0 THEN "construct" ELSE "unlock")
    /\ UNCHANGED <<clientOnce, clientPtr, clientErr, constructions, glocal, returned>>

\* docker.go:32, cli, err := client.NewClientWithOpts(...): each call makes a
\* client of its own, or an error of its own
NewClientWithOpts(g) ==
    /\ gpc[g] = "construct"
    /\ constructions' = constructions + 1
    /\ \E ok \in BOOLEAN :
          glocal' = [glocal EXCEPT ![g] =
                        IF ok THEN [cli |-> constructions', err |-> 0]
                              ELSE [cli |-> 0, err |-> constructions']]
    /\ GoTo(g, "assign")
    /\ UNCHANGED <<clientOnce, clientPtr, clientErr, returned>>

\* docker.go:33-37
getClient_Assign(g) ==
    /\ gpc[g] = "assign"
    /\ IF glocal[g].err # 0
       THEN clientErr' = glocal[g].err /\ UNCHANGED clientPtr
       ELSE clientPtr' = glocal[g].cli /\ UNCHANGED clientErr
    /\ GoTo(g, "store")
    /\ UNCHANGED <<clientOnce, constructions, glocal, returned>>

\* docker.go:38, Once.doSlow: the deferred o.done.Store(1)
Once_StoreDone(g) ==
    /\ gpc[g] = "store"
    /\ clientOnce' = [clientOnce EXCEPT !.done = 1]
    /\ GoTo(g, "unlock")
    /\ UNCHANGED <<clientPtr, clientErr, constructions, glocal, returned>>

\* docker.go:38, Once.doSlow: the deferred o.m.Unlock()
Once_Unlock(g) ==
    /\ gpc[g] = "unlock"
    /\ clientOnce' = [clientOnce EXCEPT !.m = None]
    /\ GoTo(g, "return")
    /\ UNCHANGED <<clientPtr, clientErr, constructions, glocal, returned>>

\* docker.go:39, return _client, _clientErr: the first operand is read
getClient_ReadClient(g) ==
    /\ gpc[g] = "return"
    /\ glocal' = [glocal EXCEPT ![g].cli = clientPtr]
    /\ GoTo(g, "return2")
    /\ UNCHANGED <<clientOnce, clientPtr, clientErr, constructions, returned>>

\* docker.go:39, return _client, _clientErr: the second operand is read and
\* the pair handed to the caller
getClient_Return(g) ==
    /\ gpc[g] = "return2"
    /\ returned' = returned \cup {[cli |-> glocal[g].cli, err |-> clientErr]}
    /\ glocal' = [glocal EXCEPT ![g] = NoLocals]
    /\ GoTo(g, "idle")
    /\ UNCHANGED <<clientOnce, clientPtr, clientErr, constructions>>

NextOnce ==
    \/ \E g \in Goroutines : getClient_Call(g)
    \/ \E g \in Goroutines : Once_Do(g)
    \/ \E g \in Goroutines : Once_Lock(g)
    \/ \E g \in Goroutines : Once_doSlow(g)
    \/ \E g \in Goroutines : NewClientWithOpts(g)
    \/ \E g \in Goroutines : getClient_Assign(g)
    \/ \E g \in Goroutines : Once_StoreDone(g)
    \/ \E g \in Goroutines : Once_Unlock(g)
    \/ \E g \in Goroutines : getClient_ReadClient(g)
    \/ \E g \in Goroutines : getClient_Return(g)

SpecOnce == Init /\ [][NextOnce]_vars

(***************************************************************************)
(* Entry names of the archive, docker.go:327-348.  A path is the sequence  *)
(* of its characters.  filepath.WalkDir hands the callback the root as it  *)
(* was written and, below it, filepath.Join(path of the directory, name of *)
(* the entry); Join cleans its result.                                      *)
(***************************************************************************)
Sep == "/"

\* The root directory "c" (and "c/d") in the ways a caller may write it, and
\* the working directory and the file-system root.
Roots ==
    { <<"c">>, <<"c", "/">>, <<".", "/", "c">>, <<".", "/", "c", "/">>,
      <<"/", "c">>, <<"/", "c", "/">>, <<".", ".", "/", "c">>,
      <<"c", "/", "d">>, <<".", "/", "c", "/", "d">>,
      <<".">>, <<".", "/">>, <<"/">>, <<".", ".">> }

\* Files below the root: a, s/b, .d, c/a
Files == { <<"a">>, <<"s", "/", "b">>, <<".", "d">>, <<"c", "/", "a">> }

\* strings.Split(path, "/")
RECURSIVE Split(_)
Split(path) ==
    IF path = <<>> THEN << <<>> >>
    ELSE LET r == Split(Tail(path)) IN
         IF Head(path) = Sep THEN << <<>> >> \o r
         ELSE << <<Head(path)>> \o Head(r) >> \o Tail(r)

\* strings.Join(elems, "/")
RECURSIVE JoinSep(_)
JoinSep(elems) ==
    IF elems = <<>> THEN <<>>
    ELSE IF Len(elems) = 1 THEN elems[1]
    ELSE elems[1] \o <<Sep>> \o JoinSep(Tail(elems))

\* filepath.Clean, element by element: empty and "." elements go, ".." takes
\* the element before it away, or stays when there is none to take (and goes
\* when the path is rooted).
RECURSIVE Resolve(_, _, _)
Resolve(elems, out, rooted) ==
    IF elems = <<>> THEN out
    ELSE LET e == Head(elems)
             rest == Tail(elems)
         IN  IF e = <<>> \/ e = <<".">> THEN Resolve(rest, out, rooted)
             ELSE IF e = <<".", ".">>
                  THEN IF out # <<>> /\ out[Len(out)] # <<".", ".">>
                       THEN Resolve(rest, SubSeq(out, 1, Len(out) - 1), rooted)
                       ELSE IF rooted THEN Resolve(rest, out, rooted)
                            ELSE Resolve(rest, Append(out, e), rooted)
                  ELSE Resolve(rest, Append(out, e), rooted)

Clean(path) ==
    IF path = <<>> THEN <<".">>
    ELSE LET rooted == path[1] = Sep
             out == (IF rooted THEN <<Sep>> ELSE <<>>)
                        \o JoinSep(Resolve(Split(path), <<>>, rooted))
         IN  IF out = <<>> THEN <<".">> ELSE out

\* filepath.Join(dir, name) of two non-empty elements
filepath_Join(dir, name) == Clean(dir \o <<Sep>> \o name)

HasPrefix(s, prefix) ==
    Len(s) >= Len(prefix) /\ SubSeq(s, 1, Len(prefix)) = prefix

\* strings.TrimPrefix
TrimPrefix(s, prefix) ==
    IF HasPrefix(s, prefix) THEN SubSeq(s, Len(prefix) + 1, Len(s)) ELSE s

\* docker.go:327: WalkDir starts at dirPath as written, on its way to a file
InitNames ==
    /\ clusters = {}
    /\ containers = [c \in ContainerNames |-> AbsentContainer]
    /\ localImages = {}
    /\ client = "unset"
    /\ pc = [p \in Procs |-> "idle"]
    /\ frame = [p \in Procs |-> IdleFrame]
    /\ handle = [p \in Procs |-> None]
    /\ deleted = [p \in Procs |-> FALSE]
    /\ NoStream
    /\ OnceUnused
    /\ NoWaiters
    /\ dirPath \in Roots
    /\ relPath \in Files
    /\ walkPath = dirPath
    /\ walkRest = Split(relPath)
    /\ headerName = <<>>
    /\ npc = "walk"

\* docker.go:327-333: WalkDir goes one entry down; a directory's callback
\* returns nil, the file's callback goes on
WalkDir_Descend ==
    /\ npc = "walk"
    /\ walkPath' = filepath_Join(walkPath, Head(walkRest))
    /\ walkRest' = Tail(walkRest)
    /\ npc' = IF Tail(walkRest) = <<>> THEN "file" ELSE "walk"
    /\ UNCHANGED <<dirPath, relPath, headerName>>
    /\ UNCHANGED <<hostVars, client, tarVars, onceVars, waitVars>>

\* docker.go:346
TrimDirPath ==
    /\ npc = "file"
    /\ headerName' = TrimPrefix(walkPath, dirPath)
    /\ npc' = "trimmed"
    /\ UNCHANGED <<dirPath, relPath, walkPath, walkRest>>
    /\ UNCHANGED <<hostVars, client, tarVars, onceVars, waitVars>>

\* docker.go:347-348
TrimSeparator ==
    /\ npc = "trimmed"
    /\ headerName' = TrimPrefix(headerName, <<Sep>>)
    /\ npc' = "named"
    /\ UNCHANGED <<dirPath, relPath, walkPath, walkRest>>
    /\ UNCHANGED <<hostVars, client, tarVars, onceVars, waitVars>>

NextNames ==
    \/ WalkDir_Descend
    \/ TrimDirPath
    \/ TrimSeparator

SpecNames == InitNames /\ [][NextNames]_vars

(***************************************************************************)
(* WaitForContainerReady, docker.go:165-189, against a clock that counts   *)
(* half minutes.  The caller's ctx is one that is never cancelled.  The    *)
(* timer of context.WithTimeout fires when its deadline comes: the clock   *)
(* does not pass the deadline of a call that is still waiting.             *)
(***************************************************************************)
Minute == 2            \* docker.go:174, time.Minute in ticks of the clock
MaxTime == 5           \* the clock stops here

\* The timeout argument: none, half a minute, a minute, a minute and a half
Timeouts == {0, 1, Minute, Minute + 1}

ErrDeadlineExceeded == "failed to wait for container: context deadline exceeded"

WaitGoto(w, to, f) ==
    /\ wpc' = [wpc EXCEPT ![w] = to]
    /\ wframe' = [wframe EXCEPT ![w] = f]
    /\ UNCHANGED <<hostVars, tarVars, onceVars, nameVars>>

CallWaitForContainerReady(w, timeout) ==
    /\ wpc[w] = "idle"
    /\ WaitGoto(w, "called", [NoWait EXCEPT !.timeout = timeout])
    /\ UNCHANGED <<client, now, ctrWait>>

\* docker.go:168-171
Wait_getClient(w) ==
    /\ wpc[w] = "called"
    /\ \E c \in ClientOutcomes :
          /\ client' = c
          /\ IF c = "ok"
             THEN WaitGoto(w, "timeout", wframe[w])
             ELSE WaitGoto(w, "done",
                           [wframe[w] EXCEPT !.result = "failed to create docker client"])
    /\ UNCHANGED <<now, ctrWait>>

\* The timeout handed to context.WithTimeout as it is, zero included.
WithTimeoutAsGiven(w) ==
    /\ wpc[w] = "timeout"
    /\ WaitGoto(w, "waiting",
                [wframe[w] EXCEPT !.started = now, !.deadline = now + wframe[w].timeout])
    /\ UNCHANGED <<client, now, ctrWait>>

\* docker.go:173-179: a zero timeout becomes a minute; cctx gets its deadline
\* and the wait request is sent
WithTimeout(w) ==
    /\ wpc[w] = "timeout"
    /\ LET timeout == IF wframe[w].timeout = 0 THEN Minute ELSE wframe[w].timeout IN
       WaitGoto(w, "waiting",
                [wframe[w] EXCEPT !.started = now, !.deadline = now + timeout])
    /\ UNCHANGED <<client, now, ctrWait>>

\* The runtime has something to report about the container: the condition
\* waited for, an exit with an error, or a failure of the request.
ContainerReports ==
    /\ ctrWait = "pending"
    /\ \E r \in {"met", "exited", "failed"} : ctrWait' = r
    /\ UNCHANGED <<now, wpc, wframe>>
    /\ UNCHANGED <<hostVars, client, tarVars, onceVars, nameVars>>

\* docker.go:180-188, the select: a response or an error of the request
Wait_Response(w) ==
    /\ wpc[w] = "waiting"
    /\ ctrWait # "pending"
    /\ WaitGoto(w, "done",
                [wframe[w] EXCEPT !.result =
                    CASE ctrWait = "met" -> "nil"
                      [] ctrWait = "exited" -> "container exited with error"
                      [] OTHER -> "failed to wait for container"])
    /\ UNCHANGED <<client, now, ctrWait>>

\* docker.go:186-187: cctx is done, the request ends with its error
Wait_DeadlineExceeded(w) ==
    /\ wpc[w] = "waiting"
    /\ now >= wframe[w].deadline
    /\ WaitGoto(w, "done", [wframe[w] EXCEPT !.result = ErrDeadlineExceeded])
    /\ UNCHANGED <<client, now, ctrWait>>

Wait_Return(w) ==
    /\ wpc[w] = "done"
    /\ WaitGoto(w, "idle", NoWait)
    /\ UNCHANGED <<client, now, ctrWait>>

Tick ==
    /\ now < MaxTime
    /\ \A w \in Waiters : wpc[w] = "waiting" => now < wframe[w].deadline
    /\ now' = now + 1
    /\ UNCHANGED <<ctrWait, wpc, wframe>>
    /\ UNCHANGED <<hostVars, client, tarVars, onceVars, nameVars>>

NextWait ==
    \/ \E w \in Waiters, t \in Timeouts : CallWaitForContainerReady(w, t)
    \/ \E w \in Waiters : Wait_getClient(w)
    \/ \E w \in Waiters : WithTimeout(w)
    \/ \E w \in Waiters : Wait_Response(w)
    \/ \E w \in Waiters : Wait_DeadlineExceeded(w)
    \/ \E w \in Waiters : Wait_Return(w)
    \/ ContainerReports
    \/ Tick

SpecWait == Init /\ [][NextWait]_vars

(***************************************************************************)
(* Properties                                                              *)
(***************************************************************************)
NumOk(f, op) == Cardinality({i \in 1..Len(f.log) : f.log[i].op = op /\ f.log[i].ok})

ReturnedFrom(p, op) == pc[p] = "done" /\ frame[p].op = op

RegistryPresent(name) == containers[RegistryContainerName(name)].state # "absent"

\* C1: a NewCluster call that succeeds for a name with no cluster and no
\* registry container has created exactly one cluster and exactly one registry
\* container, and both exist when it returns; a NewCluster call for a name
\* whose cluster and registry container exist creates neither, and leaves both.
C1_NewClusterIdempotent ==
    \A p \in Procs :
       ReturnedFrom(p, "NewCluster") =>
          LET f == frame[p] IN
          /\ (~f.preCluster /\ ~f.preRegistry /\ f.result = Nil) =>
                /\ NumOk(f, "provider.Create") = 1
                /\ NumOk(f, "CreateContainer") = 1
                /\ f.name \in clusters
                /\ RegistryPresent(f.name)
          /\ (f.preCluster /\ f.preRegistry) =>
                /\ NumOk(f, "provider.Create") = 0
                /\ NumOk(f, "CreateContainer") = 0
                /\ f.name \in clusters
                /\ RegistryPresent(f.name)

\* A second NewCluster call for a name has returned success while another
\* caller still holds the handle an earlier call gave for that name.
C1_Witness ==
    \E p \in Procs, q \in Procs :
       /\ p # q
       /\ ReturnedFrom(p, "NewCluster")
       /\ frame[p].preCluster /\ frame[p].preRegistry
       /\ frame[p].result = Nil
       /\ handle[q] = frame[p].name

\* C2: whenever createRegistryInNetwork returns nil, the container
\* "<clusterName>-registry" exists, is attached to a network of the cluster and
\* is running.
C2_RegistryReadyOnSuccess ==
    \A p \in Procs :
       (ReturnedFrom(p, "NewCluster") /\ frame[p].registryReturned = "nil") =>
          LET c == containers[RegistryContainerName(frame[p].name)] IN
          /\ c.state = "running"
          /\ c.net \in Networks

\* C3: after BuildAndPushImage on the handle of an existing cluster C, whose
\* registry container exists, returns nil, the image is in the store of the
\* container "C-registry".
C3_ImageInOwnRegistry ==
    \A p \in Procs :
       (/\ ReturnedFrom(p, "BuildAndPushImage")
        /\ frame[p].result = Nil
        /\ frame[p].name \in clusters
        /\ RegistryPresent(frame[p].name)) =>
          frame[p].image \in containers[RegistryContainerName(frame[p].name)].store

C5_ReuseNeverCreates ==
    \A p \in Procs :
       (frame[p].op = "NewCluster" /\ frame[p].found) =>
          ~Issued(frame[p], "provider.Create")

\* C6: every Delete that has returned has attempted the removal of the
\* registry container and the deletion of the cluster, whichever of them failed.
C6_DeleteAttemptsBoth ==
    \A p \in Procs :
       ReturnedFrom(p, "Delete") =>
          /\ Issued(frame[p], "RemoveContainer")
          /\ Issued(frame[p], "provider.Delete")

\* Delete has returned after a failed registry removal, and the cluster
\* deletion was attempted all the same.
C6_Witness ==
    \E p \in Procs :
       /\ ReturnedFrom(p, "Delete")
       /\ Failed(frame[p], "RemoveContainer")
       /\ Issued(frame[p], "provider.Delete")

\* C7: what Delete returns is nil when neither step failed, the failure of the
\* one step that failed, and both failures, registry first, when both failed.
C7_DeleteReportsFailures ==
    \A p \in Procs :
       ReturnedFrom(p, "Delete") =>
          LET f == frame[p]
              r == IF Failed(f, "RemoveContainer")
                   THEN <<"failed to remove registry container">> ELSE <<>>
              d == IF Failed(f, "provider.Delete")
                   THEN <<"failed to delete cluster">> ELSE <<>>
          IN  f.result = r \o d

\* Delete has returned with both steps failed and both failures in its result.
C7_Witness ==
    \E p \in Procs :
       /\ ReturnedFrom(p, "Delete")
       /\ Failed(frame[p], "RemoveContainer")
       /\ Failed(frame[p], "provider.Delete")
       /\ Len(frame[p].result) = 2

\* C10: PushImageToClusterRegistry issues BuildImage, PushImage, DeleteImage in
\* that order, each on the tag "localhost:5000/<imageName>" and each only after
\* the one before it succeeded; it returns nil only when all three succeeded,
\* and then the local store holds no image of that tag.
C10_PublishPipeline ==
    \A p \in Procs :
       frame[p].op = "BuildAndPushImage" =>
          LET f == frame[p]
              steps == <<"BuildImage", "PushImage", "DeleteImage">>
          IN  /\ Len(f.log) <= 3
              /\ \A i \in 1..Len(f.log) :
                    /\ f.log[i].op = steps[i]
                    /\ f.log[i].arg = RegistryImage(f.image)
                    /\ i > 1 => f.log[i - 1].ok
              /\ (pc[p] = "done" /\ f.result = Nil) =>
                    /\ Len(f.log) = 3
                    /\ \A i \in 1..3 : f.log[i].ok
                    /\ RegistryImage(f.image) \notin localImages
              /\ (pc[p] = "done" /\ f.result # Nil) =>
                    \E i \in 1..Len(f.log) : ~f.log[i].ok

\* A publish has returned nil.
C10_Witness ==
    \E p \in Procs :
       /\ ReturnedFrom(p, "BuildAndPushImage")
       /\ frame[p].result = Nil
       /\ Len(frame[p].log) = 3

\* The stream the reader got ends with the archive's trailer.
ArchiveComplete == Len(received) > 0 /\ received[Len(received)][1] = "trailer"

\* C8: the reader of the stream never meets a clean end of file after an
\* archive that is not complete.
C8_NoCleanEOFAfterTruncation == cpc = "eof" => ArchiveComplete

\* C9: the producer goroutine terminates in every execution.
C9_ProducerTerminates == <>(ppc = "done")

\* C11: with callers running concurrently, createRegistryInNetwork never sends
\* the create request for "<name>-registry" while a container of that name
\* exists (so at most one is ever made for a cluster).
C11_NoCreateWhileRegistryExists ==
    [][\A p \in Procs :
          (pc[p] = "cr_create" /\ pc'[p] # "cr_create" /\ client' = "ok") =>
              containers[RegistryContainerName(frame[p].name)].state = "absent"]_vars

\* C12: when the inspect of the control-plane node succeeds and lists no
\* network, createRegistryInNetwork returns an error: no call ends in a
\* panic.
C12_NoPanicOnEmptyNetworks == \A p \in Procs : pc[p] # "crashed"

\* C13: when NewCluster has returned, whichever return of the fresh-creation
\* branch it took, the configuration file it wrote to the temp directory is
\* gone.
C13_NoConfigFileLeftBehind ==
    \A p \in Procs :
       (pc[p] \in {"done", "crashed"} /\ frame[p].op = "NewCluster") =>
           frame[p].cfgFile # "present"

\* C14: Delete touches nothing but the cluster and the registry container of
\* its own name and creates neither; invoked again on a handle whose cluster
\* and registry container are gone, it leaves the host exactly as it found it.
C14_DeleteTwiceIsSafe ==
    [][\A p \in Procs :
          (frame[p].op = "Delete" /\ pc[p] \in {"del_registry", "del_cluster"}) =>
              LET n == frame[p].name
                  rc == RegistryContainerName(n)
              IN  /\ \A m \in Names \ {n} : (m \in clusters') <=> (m \in clusters)
                  /\ \A c \in ContainerNames \ {rc} : containers'[c] = containers[c]
                  /\ localImages' = localImages
                  /\ n \notin clusters => n \notin clusters'
                  /\ containers[rc].state = "absent" => containers'[rc] = containers[rc]
                  /\ (frame[p].again /\ ~frame[p].preCluster /\ ~frame[p].preRegistry) =>
                        /\ clusters' = clusters
                        /\ containers' = containers]_vars

\* Delete has returned from its second invocation on a handle, made when the
\* first had left neither the cluster nor the registry container.
C14_Witness ==
    \E p \in Procs :
       /\ ReturnedFrom(p, "Delete")
       /\ frame[p].again
       /\ ~frame[p].preCluster /\ ~frame[p].preRegistry
       /\ Len(frame[p].log) = 2
       /\ \E n \in Names \ {frame[p].name} : n \in clusters

\* C15: however the first calls of getClient interleave, the runtime client is
\* constructed at most once, and every call, concurrent or later, returns the
\* same pair: that one client, or that one construction error.
C15_ClientConstructedOnce ==
    /\ constructions <= 1
    /\ \A r \in returned :
          /\ constructions = 1
          /\ (r.cli = 1 /\ r.err = 0) \/ (r.cli = 0 /\ r.err = 1)
          /\ \A q \in returned : q = r

\* A call has returned while one goroutine that raced for the first call is
\* about to return and another is still waiting for the mutex.
C15_Witness ==
    /\ returned # {}
    /\ \E g \in Goroutines, h \in Goroutines :
          /\ gpc[g] = "unlock"
          /\ gpc[h] = "lock"

\* C16: however the root directory is written, the name of a file's archive
\* entry is the file's path relative to the root.
C16_EntryNameIsRelative == npc = "named" => headerName = relPath

\* host:port, as an address is written
HostPort(host, port) == host \o ":" \o port

\* C17: for every cluster name, the container createRegistryInNetwork creates,
\* the container Delete removes, the host of RegistryName() and the host of
\* the mirror address written into the cluster configuration are all
\* "<name>-registry".
C17_OneRegistryIdentity ==
    /\ \A p \in Procs :
          LET f == frame[p]
              identity == f.name \o "-registry"
          IN  \A i \in 1..Len(f.log) :
                 /\ f.log[i].op \in {"CreateContainer", "RemoveContainer"} =>
                       f.log[i].arg = identity
                 /\ f.log[i].op = "writeOutConfigTemplate" =>
                       f.log[i].arg = HostPort(identity, "5000")
    /\ \A p \in Procs :
          ReturnedFrom(p, "RegistryName") =>
              frame[p].value = HostPort(frame[p].name \o "-registry", "5000")

\* Delete on the handle of "ci-1" has removed, under the name it computes, the
\* container that createRegistryInNetwork had created.
C17_Witness ==
    \E p \in Procs :
       /\ ReturnedFrom(p, "Delete")
       /\ frame[p].name = "ci-1"
       /\ handle[p] = "ci-1"
       /\ Succeeded(frame[p], "RemoveContainer")

\* C19: for every cluster name and every image, RegistryName() is
\* "<name>-registry:5000" and ImageName(image) is RegistryName(), "/" and the
\* image.
C19_NamesAsDocumented ==
    \A p \in Procs :
       /\ ReturnedFrom(p, "RegistryName") =>
             frame[p].value = frame[p].name \o "-registry:5000"
       /\ ReturnedFrom(p, "ImageName") =>
             frame[p].value = (frame[p].name \o "-registry:5000") \o "/" \o frame[p].image

\* ImageName has returned for a cluster whose name has a hyphen in it.
C19_Witness ==
    \E p \in Procs :
       /\ ReturnedFrom(p, "ImageName")
       /\ frame[p].name = "ci-1"
       /\ frame[p].image \in Images

RegistrySteps ==
    <<"CreateContainer", "GetContainerNetworks", "AttachContainerToNetwork", "StartContainer">>

\* C20: createRegistryInNetwork creates the container, discovers the network,
\* attaches and starts, in that order and each only after the one before it
\* succeeded; no registry container runs without having been attached.
C20_CreateDiscoverAttachStart ==
    /\ \A p \in Procs :
          LET made == SelectSeq(frame[p].log,
                                LAMBDA e : \E i \in 1..4 : e.op = RegistrySteps[i])
          IN  /\ Len(made) <= 4
              /\ \A i \in 1..Len(made) :
                    /\ made[i].op = RegistrySteps[i]
                    /\ i > 1 => made[i - 1].ok
    /\ \A c \in ContainerNames :
          containers[c].state = "running" => containers[c].net # None

\* NewCluster has returned from a call in which all four steps were made.
C20_Witness ==
    \E p \in Procs :
       /\ ReturnedFrom(p, "NewCluster")
       /\ Succeeded(frame[p], "CreateContainer")
       /\ Succeeded(frame[p], "StartContainer")
       /\ containers[RegistryContainerName(frame[p].name)].state = "running"

\* C18: a call of WaitForContainerReady with a zero timeout waits as a call
\* with a timeout of one minute does, until one minute after it began; no call
\* waits beyond its window, and a call about whose container the runtime has
\* reported nothing ends with the deadline-exceeded failure.
C18_ZeroTimeoutIsOneMinute ==
    \A w \in Waiters :
       LET f == wframe[w] IN
       /\ (wpc[w] = "waiting" \/ (wpc[w] = "done" /\ f.result # "failed to create docker client")) =>
             /\ f.timeout \in {0, Minute} => f.deadline = f.started + Minute
             /\ f.timeout # 0 => f.deadline = f.started + f.timeout
       /\ wpc[w] = "waiting" => now <= f.deadline
       /\ (wpc[w] = "done" /\ ctrWait = "pending"
                           /\ f.result # "failed to create docker client") =>
             f.result = ErrDeadlineExceeded

\* A call with a zero timeout has ended with the deadline-exceeded failure, a
\* minute after it began, the container having reported nothing.
C18_Witness ==
    \E w \in Waiters :
       /\ wpc[w] = "done"
       /\ wframe[w].timeout = 0
       /\ wframe[w].result = ErrDeadlineExceeded
       /\ ctrWait = "pending"
       /\ now = wframe[w].started + Minute
       /\ wframe[w].started > 0

\* C21: when the check of createRegistryInNetwork finds a container named
\* "<clusterName>-registry", the call returns nil at once, having issued no
\* create, network-inspect, attach or start; the containers, their networks
\* and their states are as they were when the call began.
C21_ExistingRegistryLeftAlone ==
    [][\A p \in Procs :
          LET rc == RegistryContainerName(frame[p].name) IN
          /\ pc[p] \in {"cr_pull", "cr_exists"} => containers' = containers
          /\ (/\ pc[p] = "cr_exists"
              /\ pc'[p] # "cr_exists"
              /\ Succeeded(frame'[p], "ContainerExists")
              /\ containers[rc].state # "absent") =>
                 /\ pc'[p] = "done"
                 /\ frame'[p].registryReturned = "nil"
                 /\ frame'[p].result = Nil
                 /\ \A i \in 1..4 : ~Issued(frame'[p], RegistrySteps[i])]_vars

\* NewCluster has returned nil for a name whose registry container was there
\* before the call, not running, and is as it was.
C21_Witness ==
    \E p \in Procs :
       /\ ReturnedFrom(p, "NewCluster")
       /\ frame[p].preRegistry
       /\ frame[p].result = Nil
       /\ Succeeded(frame[p], "ContainerExists")
       /\ containers[RegistryContainerName(frame[p].name)].state = "created"

\* C22: the producer has at most one file open at any time, and only while
\* it copies that entry: the file of an entry is closed when its callback
\* returns, with or without an error, before the walk goes on.
C22_OneFileOpenAtATime ==
    /\ Cardinality(openFiles) <= 1
    /\ openFiles # {} => (ppc = "copy" /\ openFiles = {idx})

\* The file of the second entry is open, the first entry having been a file
\* that was opened, copied and closed.
C22_Witness ==
    /\ openFiles = {2}
    /\ entries[1].kind = "file"
    /\ ppc = "copy"

\* C23: NewCluster rolls nothing back: a call that returns an error hands out
\* no handle, has asked for no cluster to be deleted and no container to be
\* removed, and the cluster and the registry container it had created before
\* the step that failed exist when it returns.
C23_NoRollback ==
    [][\A p \in Procs :
          (/\ pc[p] # "done"
           /\ pc'[p] = "done"
           /\ frame'[p].op = "NewCluster"
           /\ frame'[p].result # Nil) =>
              LET f == frame'[p] IN
              /\ handle'[p] = handle[p]
              /\ ~Issued(f, "provider.Delete")
              /\ ~Issued(f, "RemoveContainer")
              /\ Succeeded(f, "provider.Create") => f.name \in clusters'
              /\ Succeeded(f, "CreateContainer") =>
                    containers'[RegistryContainerName(f.name)].state # "absent"]_vars

\* NewCluster has returned an error after it had created the cluster and the
\* registry container; both are there, the container not running.
C23_Witness ==
    \E p \in Procs :
       /\ ReturnedFrom(p, "NewCluster")
       /\ frame[p].result # Nil
       /\ Succeeded(frame[p], "provider.Create")
       /\ Succeeded(frame[p], "CreateContainer")
       /\ frame[p].name \in clusters
       /\ containers[RegistryContainerName(frame[p].name)].state = "created"
       /\ handle[p] = None

=============================================================================
